---- MODULE Spec2Model ----
(***************************************************************************)
(* Three stream sketches of the repository, each modelled from its source: *)
(*   - reservoir_sampling            (src/task1_4822285.py)                *)
(*   - the Bloom filter functions    (src/task2_4822285.py)                *)
(*   - class FlajoletMartin          (src/task3.py)                        *)
(* The components share no state.  Each has its own specification, which   *)
(* keeps the variables of the other components at their idle values.       *)
(***************************************************************************)
EXTENDS Integers, Sequences, FiniteSets, TLC

(***************************************************************************)
(* Bounds of the model.                                                    *)
(***************************************************************************)
\* largest sample size k passed to reservoir_sampling
MaxK == 3
\* largest number of transactions the datastream yields
MaxStream == 4
\* largest bit-array size N
MaxN == 2
\* largest number of Bloom hash functions
MaxHashFunctions == 2
\* largest number of FlajoletMartin hash slots
MaxNumHashes == 2
\* largest SHA-256 value of the FlajoletMartin model (stands for 2^256 - 1)
MaxHashValue == 4
\* largest argument given to count_trailing_zeros on its own
MaxX == 64

\* the transactions a datastream can yield
Transactions == {10, 20, 30}
\* the bank accounts offered to the Bloom filter
BankAccounts == {"a", "b"}
\* the items offered to the cardinality estimator
Items == {"x", "y"}
\* SHA-256 values of the Bloom model (stand for 0 .. 2^256 - 1): every
\* residue modulo every modelled N, and a value that wraps around to 0
MaxDigest == MaxN

VARIABLES
    \* reservoir_sampling: argument k, local sample, enumerate index
    \* (= number of transactions consumed), last randint draw (-1 while
    \* reservoir_index is unassigned), the
    \* transactions the datastream has yielded so far, control point
    k, sample, index, reservoir_index, stream, rs_pc,
    \* Bloom filter: the two arguments of create_hash_functions, the bit
    \* array, SHA-256 on the strings the hash functions build, the accounts
    \* added so far, the last call (its name, its argument, whether the
    \* argument had been added before, the result of a check), control point
    num_hash_functions, size_bit_array, bloom_filter, sha_bloom,
    added, bf_op, bf_pc,
    \* FlajoletMartin: constructor argument, the counters, SHA-256 on the
    \* seeded items, the items added so far, the last call, what the last
    \* estimate_number returned (<<>> before the first), control point
    num_hashes, max_trailing_zeros, sha_fm, fm_added, fm_op, estimate, fm_pc,
    \* count_trailing_zeros on its own: argument, result, control point
    x, trailing_zeros_count, ctz_pc

rs_vars == <<k, sample, index, reservoir_index, stream, rs_pc>>
bf_vars == <<num_hash_functions, size_bit_array, bloom_filter, sha_bloom,
             added, bf_op, bf_pc>>
fm_vars == <<num_hashes, max_trailing_zeros, sha_fm, fm_added, fm_op,
             estimate, fm_pc>>
ctz_vars == <<x, trailing_zeros_count, ctz_pc>>
vars == <<rs_vars, bf_vars, fm_vars, ctz_vars>>

(***************************************************************************)
(* Python helpers.                                                         *)
(***************************************************************************)
\* [0] * n : the empty list when n <= 0
ListOfZeros(n) == [i \in 1..(IF n > 0 THEN n ELSE 0) |-> 0]

\* min(a, b), for the statements about lengths
Min(a, b) == IF a < b THEN a ELSE b

RECURSIVE Pow2(_)
Pow2(n) == IF n <= 0 THEN 1 ELSE 2 * Pow2(n - 1)

(***************************************************************************)
(* reservoir_sampling (src/task1_4822285.py)                               *)
(***************************************************************************)
\* a variant of randint whose upper end is one too far
randint_mut(a, b) == a..(b + 1)

\* random.randint(0, index): both ends inclusive
randint(a, b) == a..b

\* a variant of loop_body that still appends at index = k
loop_body_grow(s, kk, idx, transaction, j) ==
    IF idx <= kk THEN Append(s, transaction)
    ELSE IF j < kk THEN [s EXCEPT ![j + 1] = transaction]
    ELSE s

\* the body of the for loop: idx is the 0-based position of transaction,
\* j the value drawn for reservoir_index (only read when idx >= kk)
loop_body(s, kk, idx, transaction, j) ==
    IF idx < kk THEN Append(s, transaction)
    ELSE IF j < kk THEN [s EXCEPT ![j + 1] = transaction]
    ELSE s

\* the call reservoir_sampling(kk, datastream): no check of kk is made
rs_Call(kk) ==
    /\ rs_pc = "start"
    /\ k' = kk
    /\ sample' = <<>>
    /\ rs_pc' = "loop"
    /\ UNCHANGED <<index, reservoir_index, stream>>
    /\ UNCHANGED <<bf_vars, fm_vars, ctz_vars>>

\* one iteration: the datastream yields transaction
rs_Observe(transaction) ==
    /\ rs_pc = "loop"
    /\ Len(stream) < MaxStream
    /\ \E j \in (IF index < k THEN {-1} ELSE randint(0, index)) :
          /\ reservoir_index' = (IF index < k THEN reservoir_index ELSE j)
          /\ sample' = loop_body(sample, k, index, transaction, j)
    /\ stream' = Append(stream, transaction)
    /\ index' = index + 1
    /\ UNCHANGED <<k, rs_pc>>
    /\ UNCHANGED <<bf_vars, fm_vars, ctz_vars>>

\* the datastream is exhausted: return sample
rs_Return ==
    /\ rs_pc = "loop"
    /\ rs_pc' = "returned"
    /\ UNCHANGED <<k, sample, index, reservoir_index, stream>>
    /\ UNCHANGED <<bf_vars, fm_vars, ctz_vars>>

rs_Init ==
    /\ k = 0 /\ sample = <<>> /\ index = 0
    /\ reservoir_index = -1 /\ stream = <<>> /\ rs_pc = "start"
    /\ num_hash_functions = 0 /\ size_bit_array = 0 /\ bloom_filter = <<>>
    /\ sha_bloom = [p \in {} |-> 0] /\ added = {}
    /\ bf_op = [name |-> "none", account |-> "", again |-> FALSE, result |-> FALSE]
    /\ bf_pc = "idle"
    /\ num_hashes = 0 /\ max_trailing_zeros = <<>>
    /\ sha_fm = [p \in {} |-> 0] /\ fm_added = {}
    /\ fm_op = [name |-> "none", item |-> "", again |-> FALSE]
    /\ estimate = <<>> /\ fm_pc = "idle"
    /\ x = 0 /\ trailing_zeros_count = 0 /\ ctz_pc = "idle"

rs_Next ==
    \/ \E kk \in (-1)..MaxK : rs_Call(kk)
    \/ \E transaction \in Transactions : rs_Observe(transaction)
    \/ rs_Return

(***************************************************************************)
(* Bloom filter (src/task2_4822285.py)                                     *)
(***************************************************************************)
\* a % n on a >= 0 as Python computes it for n # 0: the result has the sign
\* of n (n = 0 raises ZeroDivisionError and is decided by the callers)
PyMod(a, n) ==
    IF n > 0 THEN a % n
    ELSE LET r == a % (-n) IN IF r = 0 THEN 0 ELSE r + n

\* a list subscript i is valid on a list of length len when -len <= i < len
ValidSubscript(i, len) == -len <= i /\ i < len

\* the 1-based position a valid Python subscript i denotes
Position(i, len) == IF i >= 0 THEN i + 1 ELSE len + i + 1

\* create_hash_functions: one closure per index in range(num), each bound
\* to its own index by the default argument; the list is empty when
\* num <= 0, and nothing is checked
create_hash_functions(num, size) == [i \in 1..(IF num > 0 THEN num ELSE 0) |-> i - 1]

hash_functions == create_hash_functions(num_hash_functions, size_bit_array)

\* the closure of index idx applied to a bank account:
\* int(sha256(f"hash_function_index_{index}_bank_account_{x}")) % size_bit_array
custom_hash(idx, account) == PyMod(sha_bloom[<<idx, account>>], size_bit_array)

\* a variant of set_bit that flips the bit instead of setting it
set_bit_toggle(bf, i) ==
    [bf EXCEPT ![Position(i, Len(bf))] = 1 - bf[Position(i, Len(bf))]]

\* bloom_filter[i] = 1
set_bit(bf, i) == [bf EXCEPT ![Position(i, Len(bf))] = 1]

RECURSIVE add_to_bloom_filter(_, _, _)
RECURSIVE check_bloom_filter(_, _, _)
RECURSIVE check_bloom_filter_any(_, _, _)

\* a variant of add_to_bloom_filter that stops after the first hash function
add_to_bloom_filter_first(bf, hf, account) ==
    IF hf = <<>> THEN [raised |-> "", bloom |-> bf]
    ELSE IF size_bit_array = 0 THEN [raised |-> "ZeroDivisionError", bloom |-> bf]
    ELSE LET i == custom_hash(Head(hf), account) IN
         IF ~ValidSubscript(i, Len(bf)) THEN [raised |-> "IndexError", bloom |-> bf]
         ELSE [raised |-> "", bloom |-> set_bit(bf, i)]

\* add_to_bloom_filter: the list is changed in place, so what an exception
\* leaves behind is the list as changed so far
add_to_bloom_filter(bf, hf, account) ==
    IF hf = <<>> THEN [raised |-> "", bloom |-> bf]
    ELSE IF size_bit_array = 0 THEN [raised |-> "ZeroDivisionError", bloom |-> bf]
    ELSE LET i == custom_hash(Head(hf), account) IN
         IF ~ValidSubscript(i, Len(bf)) THEN [raised |-> "IndexError", bloom |-> bf]
         ELSE add_to_bloom_filter(set_bit(bf, i), Tail(hf), account)

\* a variant of check_bloom_filter that returns True when any indexed bit
\* is 1
check_bloom_filter_any(bf, hf, account) ==
    IF hf = <<>> THEN [raised |-> "", result |-> TRUE]
    ELSE IF size_bit_array = 0 THEN [raised |-> "ZeroDivisionError", result |-> FALSE]
    ELSE LET i == custom_hash(Head(hf), account) IN
         IF ~ValidSubscript(i, Len(bf)) THEN [raised |-> "IndexError", result |-> FALSE]
         ELSE IF bf[Position(i, Len(bf))] # 1 /\ Tail(hf) # <<>>
              THEN check_bloom_filter_any(bf, Tail(hf), account)
              ELSE [raised |-> "", result |-> bf[Position(i, Len(bf))] = 1]

\* check_bloom_filter: False at the first hash whose bit is not 1
check_bloom_filter(bf, hf, account) ==
    IF hf = <<>> THEN [raised |-> "", result |-> TRUE]
    ELSE IF size_bit_array = 0 THEN [raised |-> "ZeroDivisionError", result |-> FALSE]
    ELSE LET i == custom_hash(Head(hf), account) IN
         IF ~ValidSubscript(i, Len(bf)) THEN [raised |-> "IndexError", result |-> FALSE]
         ELSE IF bf[Position(i, Len(bf))] # 1 THEN [raised |-> "", result |-> FALSE]
         ELSE check_bloom_filter(bf, Tail(hf), account)

\* bloom = [0] * N; custom_hash_functions = create_hash_functions(k, N).
\* sha_bloom is SHA-256 on the strings these hash functions can build: a
\* fixed function, unknown to the model, so every table is tried.
bf_Create(num, size) ==
    /\ bf_pc = "start"
    /\ num_hash_functions' = num
    /\ size_bit_array' = size
    /\ bloom_filter' = ListOfZeros(size)
    /\ sha_bloom' \in [(0..(num - 1)) \X BankAccounts -> 0..MaxDigest]
    /\ bf_pc' = "ready"
    /\ UNCHANGED <<added, bf_op>>
    /\ UNCHANGED <<rs_vars, fm_vars, ctz_vars>>

\* add_to_bloom_filter(bloom, custom_hash_functions, account)
bf_Add(account) ==
    /\ bf_pc = "ready"
    /\ LET r == add_to_bloom_filter(bloom_filter, hash_functions, account) IN
          /\ bloom_filter' = r.bloom
          /\ added' = (IF r.raised = "" THEN added \cup {account} ELSE added)
          /\ bf_pc' = (IF r.raised = "" THEN "ready" ELSE r.raised)
          /\ bf_op' = [name |-> "add", account |-> account,
                       again |-> account \in added, result |-> FALSE]
    /\ UNCHANGED <<num_hash_functions, size_bit_array, sha_bloom>>
    /\ UNCHANGED <<rs_vars, fm_vars, ctz_vars>>

\* check_bloom_filter(bloom, custom_hash_functions, account)
bf_Check(account) ==
    /\ bf_pc = "ready"
    /\ LET r == check_bloom_filter(bloom_filter, hash_functions, account) IN
          /\ bf_pc' = (IF r.raised = "" THEN "ready" ELSE r.raised)
          /\ bf_op' = [name |-> "check", account |-> account,
                       again |-> FALSE, result |-> r.result]
    /\ UNCHANGED <<num_hash_functions, size_bit_array, sha_bloom,
                   bloom_filter, added>>
    /\ UNCHANGED <<rs_vars, fm_vars, ctz_vars>>

bf_Init ==
    /\ k = 0 /\ sample = <<>> /\ index = 0
    /\ reservoir_index = -1 /\ stream = <<>> /\ rs_pc = "idle"
    /\ num_hash_functions = 0 /\ size_bit_array = 0 /\ bloom_filter = <<>>
    /\ sha_bloom = [p \in {} |-> 0] /\ added = {}
    /\ bf_op = [name |-> "none", account |-> "", again |-> FALSE, result |-> FALSE]
    /\ bf_pc = "start"
    /\ num_hashes = 0 /\ max_trailing_zeros = <<>>
    /\ sha_fm = [p \in {} |-> 0] /\ fm_added = {}
    /\ fm_op = [name |-> "none", item |-> "", again |-> FALSE]
    /\ estimate = <<>> /\ fm_pc = "idle"
    /\ x = 0 /\ trailing_zeros_count = 0 /\ ctz_pc = "idle"

bf_Next ==
    \/ \E num \in (-1)..MaxHashFunctions, size \in (-1)..MaxN :
         bf_Create(num, size)
    \/ \E account \in BankAccounts : bf_Add(account)
    \/ \E account \in BankAccounts : bf_Check(account)

(***************************************************************************)
(* FlajoletMartin (src/task3.py)                                           *)
(***************************************************************************)
\* hash_function: int(sha256(f"{seed}-{item}").hexdigest(), 16)
hash_function(item, seed) == sha_fm[<<seed, item>>]

\* bin(v)[2:] for v >= 0: the binary digits, most significant first
RECURSIVE binary_representation(_)
binary_representation(v) ==
    IF v < 2 THEN <<IF v = 1 THEN "1" ELSE "0">>
    ELSE Append(binary_representation(v \div 2), IF v % 2 = 1 THEN "1" ELSE "0")

\* s[::-1]
Reversed(s) == [i \in 1..Len(s) |-> s[Len(s) + 1 - i]]

\* s.index(c): the 0-based position of the first c (the caller decides the
\* ValueError of a string without c)
StrIndex(s, c) == (CHOOSE i \in 1..Len(s) : s[i] = c /\ \A j \in 1..(i - 1) : s[j] # c) - 1

\* a variant of count_trailing_zeros that does not reverse the digits
count_trailing_zeros_leading(v) ==
    LET digits == binary_representation(v) IN
    IF \E i \in 1..Len(digits) : digits[i] = "1"
    THEN StrIndex(digits, "1")
    ELSE 0

\* count_trailing_zeros: the index of the first '1' of the reversed binary
\* digits, 0 on the ValueError of a string without '1'
count_trailing_zeros(v) ==
    LET digits == Reversed(binary_representation(v)) IN
    IF \E i \in 1..Len(digits) : digits[i] = "1"
    THEN StrIndex(digits, "1")
    ELSE 0

\* a variant of update_counter that stores the count without comparing
update_counter_assign(current, count) == count

\* a variant of update_counter that adds the count to the counter
update_counter_accumulate(current, count) == current + count

\* if trailing_zeros_count > self.max_trailing_zeros[i]:
\*     self.max_trailing_zeros[i] = trailing_zeros_count
update_counter(current, count) == IF count > current THEN count ELSE current

\* add: every slot i of range(len(self.max_trailing_zeros)) is updated from
\* the hash of the item under seed i
add(counters, item) ==
    [i \in 1..Len(counters) |->
        update_counter(counters[i],
                       count_trailing_zeros(hash_function(item, i - 1)))]

\* sorted(data)
RECURSIVE Insert(_, _)
Insert(v, s) ==
    IF s = <<>> THEN <<v>>
    ELSE IF v <= Head(s) THEN <<v>> \o s
    ELSE <<Head(s)>> \o Insert(v, Tail(s))

RECURSIVE sorted(_)
sorted(s) == IF s = <<>> THEN <<>> ELSE Insert(Head(s), sorted(Tail(s)))

\* a variant of median that takes the upper middle element for every n
median_high(data) ==
    LET d == sorted(data)
        n == Len(d)
    IN  [twice |-> 2 * d[(n \div 2) + 1], type |-> "int"]

\* statistics.median on a non-empty list (the caller decides the
\* StatisticsError of an empty one): data[n // 2], an int, when n is odd;
\* (data[n//2 - 1] + data[n//2]) / 2, a float, when n is even.  The value
\* is kept as twice the median, which is always an integer.
median(data) ==
    LET d == sorted(data)
        n == Len(d)
    IN  IF n % 2 = 1
        THEN [twice |-> 2 * d[(n \div 2) + 1], type |-> "int"]
        ELSE [twice |-> d[n \div 2] + d[(n \div 2) + 1], type |-> "float"]

\* the bias constant 0.75351, in units of 1e-5
Phi == 75351

\* 2 ** m / 0.75351 in thousandths, rounded down; for a half-integer m,
\* 2 ** m = 2 ** floor(m) * sqrt(2), with sqrt(2) taken as 1.41421
estimated_number(m) ==
    (Pow2(m.twice \div 2) * (IF m.twice % 2 = 0 THEN 100000 ELSE 141421) * 1000)
        \div Phi

\* estimate_number on non-empty counters: (estimated_number, median)
estimate_number(counters) ==
    LET median_trailing_zeros == median(counters)
    IN  <<estimated_number(median_trailing_zeros), median_trailing_zeros>>

\* FlajoletMartin(num_hashes=n): no check of n is made.  sha_fm is
\* SHA-256 on the seeded items this instance can hash: a fixed function,
\* unknown to the model, so every table is tried.
fm_New(n) ==
    /\ fm_pc = "start"
    /\ num_hashes' = n
    /\ max_trailing_zeros' = ListOfZeros(n)
    /\ sha_fm' \in [(0..(n - 1)) \X Items -> 0..MaxHashValue]
    /\ fm_pc' = "ready"
    /\ UNCHANGED <<fm_added, fm_op, estimate>>
    /\ UNCHANGED <<rs_vars, bf_vars, ctz_vars>>

\* fm.add(item)
fm_Add(item) ==
    /\ fm_pc = "ready"
    /\ max_trailing_zeros' = add(max_trailing_zeros, item)
    /\ fm_added' = fm_added \cup {item}
    /\ fm_op' = [name |-> "add", item |-> item, again |-> item \in fm_added]
    /\ UNCHANGED <<num_hashes, sha_fm, estimate, fm_pc>>
    /\ UNCHANGED <<rs_vars, bf_vars, ctz_vars>>

\* fm.estimate_number(): statistics.median raises StatisticsError on an
\* empty list
fm_Estimate ==
    /\ fm_pc = "ready"
    /\ IF max_trailing_zeros = <<>>
       THEN /\ fm_pc' = "StatisticsError"
            /\ UNCHANGED estimate
       ELSE /\ estimate' = <<estimate_number(max_trailing_zeros)>>
            /\ UNCHANGED fm_pc
    /\ fm_op' = [name |-> "estimate_number", item |-> "", again |-> FALSE]
    /\ UNCHANGED <<num_hashes, max_trailing_zeros, sha_fm, fm_added>>
    /\ UNCHANGED <<rs_vars, bf_vars, ctz_vars>>

fm_Init ==
    /\ k = 0 /\ sample = <<>> /\ index = 0
    /\ reservoir_index = -1 /\ stream = <<>> /\ rs_pc = "idle"
    /\ num_hash_functions = 0 /\ size_bit_array = 0 /\ bloom_filter = <<>>
    /\ sha_bloom = [p \in {} |-> 0] /\ added = {}
    /\ bf_op = [name |-> "none", account |-> "", again |-> FALSE, result |-> FALSE]
    /\ bf_pc = "idle"
    /\ num_hashes = 0 /\ max_trailing_zeros = <<>>
    /\ sha_fm = [p \in {} |-> 0] /\ fm_added = {}
    /\ fm_op = [name |-> "none", item |-> "", again |-> FALSE]
    /\ estimate = <<>> /\ fm_pc = "start"
    /\ x = 0 /\ trailing_zeros_count = 0 /\ ctz_pc = "idle"

fm_Next ==
    \/ \E n \in (-1)..MaxNumHashes : fm_New(n)
    \/ \E item \in Items : fm_Add(item)
    \/ fm_Estimate

(***************************************************************************)
(* count_trailing_zeros on its own: every argument up to MaxX              *)
(***************************************************************************)
ctz_Init ==
    /\ k = 0 /\ sample = <<>> /\ index = 0
    /\ reservoir_index = -1 /\ stream = <<>> /\ rs_pc = "idle"
    /\ num_hash_functions = 0 /\ size_bit_array = 0 /\ bloom_filter = <<>>
    /\ sha_bloom = [p \in {} |-> 0] /\ added = {}
    /\ bf_op = [name |-> "none", account |-> "", again |-> FALSE, result |-> FALSE]
    /\ bf_pc = "idle"
    /\ num_hashes = 0 /\ max_trailing_zeros = <<>>
    /\ sha_fm = [p \in {} |-> 0] /\ fm_added = {}
    /\ fm_op = [name |-> "none", item |-> "", again |-> FALSE]
    /\ estimate = <<>> /\ fm_pc = "idle"
    /\ x \in 0..MaxX /\ trailing_zeros_count = 0 /\ ctz_pc = "call"

ctz_Call ==
    /\ ctz_pc = "call"
    /\ trailing_zeros_count' = count_trailing_zeros(x)
    /\ ctz_pc' = "done"
    /\ UNCHANGED x
    /\ UNCHANGED <<rs_vars, bf_vars, fm_vars>>

ctz_Next == ctz_Call

(***************************************************************************)
(* Specifications, one per component.                                      *)
(***************************************************************************)
SpecReservoir == rs_Init /\ [][rs_Next]_vars

SpecBloom == bf_Init /\ [][bf_Next]_vars

SpecFM == fm_Init /\ [][fm_Next]_vars

SpecCTZ == ctz_Init /\ [][ctz_Next]_vars

(***************************************************************************)
(* Claims about reservoir_sampling, under SpecReservoir.                   *)
(***************************************************************************)

C8_AlgorithmRStep ==
    [][(rs_pc = "loop" /\ index' = index + 1) =>
        LET i == index
            transaction == stream'[i + 1]
            j == reservoir_index'
        IN  /\ i < k =>
                /\ Len(sample') = Len(sample) + 1
                /\ sample'[i + 1] = transaction
                /\ \A m \in 1..Len(sample) : sample'[m] = sample[m]
                /\ j = reservoir_index
            /\ i >= k =>
                /\ j \in 0..i
                /\ Len(sample') = Len(sample)
                /\ j < k =>
                    /\ sample'[j + 1] = transaction
                    /\ \A m \in 1..Len(sample) :
                          m # j + 1 => sample'[m] = sample[m]
                /\ j >= k => sample' = sample
            /\ (k = 2 /\ stream' = <<10, 20, 30>> /\ j = 0) =>
                sample' = <<30, 20>>
      ]_vars

\* C8 witness: the scenario k = 2, stream 10, 20, 30, draw 0 at position 2.
C8_Witness ==
    /\ k = 2 /\ stream = <<10, 20, 30>> /\ reservoir_index = 0
    /\ sample = <<30, 20>>

(***************************************************************************)
(* Claims about the Bloom filter, under SpecBloom.                         *)
(***************************************************************************)

\* the bits of bf that are 1, as 0-based indices
BitsSet(bf) == {i \in 0..(Len(bf) - 1) : bf[i + 1] = 1}

\* the indices the hash functions give for the accounts of a set
HashIndices(accounts) ==
    {custom_hash(idx, account) :
        idx \in 0..(num_hash_functions - 1), account \in accounts}

\* C1: no false negatives.  For every N >= 1 and h >= 1 and after every
\* sequence of adds and checks, check_bloom_filter returns True for every
\* account added so far, and every check that was made of an added account
\* returned True.
C1_NoFalseNegatives ==
    (bf_pc # "start" /\ size_bit_array >= 1 /\ num_hash_functions >= 1) =>
        /\ bf_pc = "ready"
        /\ \A account \in added :
              check_bloom_filter(bloom_filter, hash_functions, account)
                  = [raised |-> "", result |-> TRUE]
        /\ (bf_op.name = "check" /\ bf_op.account \in added) => bf_op.result

\* C1 witness: with two hash functions and two bits, both accounts were
\* added and a check of one of them returned True.
C1_Witness ==
    /\ size_bit_array >= 2 /\ num_hash_functions >= 2
    /\ added = BankAccounts
    /\ bf_op.name = "check" /\ bf_op.result
    /\ BitsSet(bloom_filter) # {}

\* C6: add is bounded and idempotent.  For N >= 1 and h >= 1 one
\* add_to_bloom_filter turns at most h bits from 0 to 1 and none from 1 to
\* 0, and an add of an account that was added before, whatever was added
\* since, leaves the bit array exactly as it was.
C6_AddIdempotentBounded ==
    [][(bf_pc = "ready" /\ bf_op'.name = "add"
        /\ size_bit_array >= 1 /\ num_hash_functions >= 1) =>
          /\ Len(bloom_filter') = Len(bloom_filter)
          /\ BitsSet(bloom_filter) \subseteq BitsSet(bloom_filter')
          /\ Cardinality(BitsSet(bloom_filter') \ BitsSet(bloom_filter))
                <= num_hash_functions
          /\ bf_op'.account \in added => bloom_filter' = bloom_filter
      ]_vars

\* C6 witness: an account is added again after the other account was added,
\* on an array where the two accounts set different bits.
C6_Witness ==
    /\ size_bit_array >= 2 /\ num_hash_functions >= 2
    /\ bf_op.name = "add" /\ bf_op.again
    /\ added = BankAccounts
    /\ HashIndices({"a"}) # HashIndices({"b"})

\* C10: the bit array tracks the added accounts exactly.  For N >= 1 the
\* array keeps length N and holds only 0 and 1, the bits that are 1 are
\* exactly the hash indices of the accounts added, all within 0..N-1; no
\* step turns a bit from 1 to 0; check_bloom_filter does not change the
\* array; and a check returns True exactly when all h indexed bits are 1.
C10_BitsTrackAdded ==
    /\ [](( bf_pc # "start" /\ size_bit_array >= 1) =>
            /\ Len(bloom_filter) = size_bit_array
            /\ \A i \in 1..Len(bloom_filter) : bloom_filter[i] \in {0, 1}
            /\ HashIndices(BankAccounts) \subseteq 0..(size_bit_array - 1)
            /\ BitsSet(bloom_filter) = HashIndices(added)
            /\ bf_op.name = "check" =>
                  (bf_op.result <=>
                      HashIndices({bf_op.account}) \subseteq BitsSet(bloom_filter)))
    /\ [][/\ bf_pc # "start" => BitsSet(bloom_filter) \subseteq BitsSet(bloom_filter')
          /\ (bf_op'.name = "check" /\ bf_pc # "start") => bloom_filter' = bloom_filter
         ]_vars

\* C10 witness: a check of an account that was never added returned False
\* although one of its two bits was set by the account that was added.
C10_Witness ==
    /\ size_bit_array >= 2 /\ num_hash_functions >= 2
    /\ bf_op.name = "check" /\ ~bf_op.result
    /\ bf_op.account \notin added /\ added # {}
    /\ HashIndices({bf_op.account}) \cap BitsSet(bloom_filter) # {}

(***************************************************************************)
(* Claims about FlajoletMartin, under SpecFM.                              *)
(***************************************************************************)

\* the largest element of a non-empty set of integers
Max(S) == CHOOSE m \in S : \A n \in S : n <= m

\* the number of trailing zero bits of the hash of an item under a seed
TrailingZerosOf(item, seed) == count_trailing_zeros(hash_function(item, seed))

\* the number of counters below, and above, a value
Below(counters, v) == Cardinality({i \in 1..Len(counters) : counters[i] < v})
Above(counters, v) == Cardinality({i \in 1..Len(counters) : counters[i] > v})

\* C3: after any sequence of adds there is one counter per hash slot, and
\* the counter of slot i is the largest trailing-zero count of
\* hash_function(item, i) over the items added so far (0 when none was
\* added); no step decreases a counter.
C3_CountersAreMaxima ==
    /\ [](fm_pc # "start" =>
            /\ Len(max_trailing_zeros) = (IF num_hashes > 0 THEN num_hashes ELSE 0)
            /\ \A i \in 1..Len(max_trailing_zeros) :
                  max_trailing_zeros[i] =
                      Max({0} \cup {TrailingZerosOf(item, i - 1) : item \in fm_added}))
    /\ [][fm_pc # "start" =>
            /\ Len(max_trailing_zeros') = Len(max_trailing_zeros)
            /\ \A i \in 1..Len(max_trailing_zeros) :
                  max_trailing_zeros'[i] >= max_trailing_zeros[i]
         ]_vars

\* C3 witness: both items were added, and a counter holds a count of 2 that
\* the item added last does not reach: the maximum came from the earlier one.
C3_Witness ==
    /\ fm_added = Items /\ fm_op.name = "add"
    /\ \E i \in 1..Len(max_trailing_zeros) :
          /\ max_trailing_zeros[i] >= 2
          /\ TrailingZerosOf(fm_op.item, i - 1) < max_trailing_zeros[i]

\* C4: configuration errors are detected at construction: no FlajoletMartin
\* instance with num_hashes <= 0 is ever built, and no error arises later,
\* in add or estimate_number.
C4_EagerConfigurationErrors ==
    /\ fm_pc # "start" => num_hashes >= 1
    /\ fm_pc \in {"start", "ready"}

\* C5: an add of an item that was added before, at any later point, leaves
\* every counter as it was, and estimate_number returns the same pair before
\* and after it.
C5_DuplicateAddIsNoOp ==
    [][(fm_pc = "ready" /\ fm_op'.name = "add" /\ fm_op'.item \in fm_added) =>
          /\ max_trailing_zeros' = max_trailing_zeros
          /\ max_trailing_zeros # <<>> =>
                estimate_number(max_trailing_zeros')
                    = estimate_number(max_trailing_zeros)
      ]_vars

\* C5 witness: an item is added again after both items were added and an
\* estimate was taken, on counters that are not all 0.
C5_Witness ==
    /\ fm_op.name = "add" /\ fm_op.again
    /\ fm_added = Items /\ estimate # <<>>
    /\ \E i \in 1..Len(max_trailing_zeros) : max_trailing_zeros[i] > 0
    /\ \E i \in 1..Len(max_trailing_zeros) :
          TrailingZerosOf("x", i - 1) # TrailingZerosOf("y", i - 1)

\* C7 as stated: for every h >= 1 the second component returned by
\* estimate_number is an integer (twice the median is even).
C7_MedianIsInteger ==
    (estimate # <<>> /\ num_hashes >= 1) => estimate[1][2].twice % 2 = 0

\* C7, amended: for every h >= 1 and every sequence of adds (none included)
\* estimate_number leaves the counters unchanged and returns a pair whose
\* second component is the median of the counters: for odd h an int, the
\* middle counter; for even h a float, the mean of the two middle counters,
\* which may be a half-integer.  The first component is 2^median / 0.75351
\* (here in thousandths, rounded down).  With no item added the median is 0.
C7_EstimatePair ==
    /\ []((fm_op.name = "estimate_number" /\ fm_pc = "ready" /\ num_hashes >= 1) =>
            LET counters == max_trailing_zeros
                h == Len(counters)
                med == estimate[1][2]
                est == estimate[1][1]
                power == Pow2(med.twice \div 2)
                          * (IF med.twice % 2 = 0 THEN 100000 ELSE 141421) * 1000
            IN  /\ h = num_hashes
                /\ h % 2 = 1 =>
                      /\ med.type = "int" /\ med.twice % 2 = 0
                      /\ \E i \in 1..h : counters[i] * 2 = med.twice
                      /\ Below(counters, med.twice \div 2) <= (h - 1) \div 2
                      /\ Above(counters, med.twice \div 2) <= (h - 1) \div 2
                /\ h % 2 = 0 =>
                      /\ med.type = "float"
                      /\ \E i, j \in 1..h :
                            /\ i # j /\ counters[i] <= counters[j]
                            /\ med.twice = counters[i] + counters[j]
                            /\ Below(counters, counters[i]) <= (h \div 2) - 1
                            /\ Above(counters, counters[i]) <= h \div 2
                            /\ Above(counters, counters[j]) <= (h \div 2) - 1
                            /\ Below(counters, counters[j]) <= h \div 2
                /\ est * Phi <= power /\ power < (est + 1) * Phi
                /\ fm_added = {} => med.twice = 0)
    /\ [][fm_op'.name = "estimate_number" =>
            max_trailing_zeros' = max_trailing_zeros]_vars

\* C7 witness: with two counters that differ by an odd amount the median
\* returned is a half-integer.
C7_Witness ==
    /\ fm_op.name = "estimate_number" /\ fm_pc = "ready"
    /\ num_hashes = 2
    /\ estimate[1][2].type = "float"
    /\ estimate[1][2].twice % 2 = 1

(***************************************************************************)
(* Claim about count_trailing_zeros, under SpecCTZ.                        *)
(***************************************************************************)

\* C9: for every x > 0 count_trailing_zeros(x) is the position of the lowest
\* set bit of x: 2^count divides x and x / 2^count is odd; for x = 0 it
\* returns 0.
C9_LowestSetBit ==
    ctz_pc = "done" =>
        /\ x = 0 => trailing_zeros_count = 0
        /\ x > 0 =>
              /\ trailing_zeros_count >= 0
              /\ x % Pow2(trailing_zeros_count) = 0
              /\ (x \div Pow2(trailing_zeros_count)) % 2 = 1

\* C9 witness: 40 is 101000 in binary, with three trailing zeros.
C9_Witness == ctz_pc = "done" /\ x = 40 /\ trailing_zeros_count = 3

====
